---- MODULE Spec2Model ----
(***************************************************************************)
(* Model of cppfmu_common.hpp: the Memory handle, Allocator<T>, the        *)
(* New / Delete / AllocateUnique helpers and the Logger, together with the *)
(* host callbacks (allocateMemory, freeMemory, logger) they forward to.    *)
(*                                                                         *)
(* Each operation modelled is one action.  An operation threads a          *)
(* record st = [heap, objs, trace, ret, exc, ...] through the functions it *)
(* calls; trace is the sequence of host calls and of constructor and       *)
(* destructor runs the operation performed, in order.                      *)
(***************************************************************************)
EXTENDS Integers, Sequences, FiniteSets, TLC

\* ------------------------------------------------------------------------
\* Bounds
\* ------------------------------------------------------------------------
MaxBlocks == 2      \* addresses the hosts can hand out
MaxN == 2           \* largest element count passed to allocate/deallocate
MaxHandles == 2     \* UniquePtr variables of the model code
MaxLogCalls == 4    \* Log / DebugLog calls in one behaviour
MaxStrings == 2     \* String variables of the model code

\* ------------------------------------------------------------------------
\* Values
\* ------------------------------------------------------------------------
NULL == 0
Addrs == 1..MaxBlocks
Ptrs == Addrs \cup {NULL}

\* Host function pointers.  Host i supplies Ai (allocateMemory) and
\* Fi (freeMemory) in its fmiCallbackFunctions bundle.
AllocFns == {"A1", "A2", "A3"}
FreeFns == {"F1", "F2", "F3"}
HostOf(fn) == CASE fn \in {"A1", "F1"} -> 1 [] fn \in {"A2", "F2"} -> 2 [] OTHER -> 3
\* The hosts whose model instances allocate in the model.
InstanceHosts == {1, 2}

Types == {"char", "int", "Obj"}
SizeOf(T) == CASE T = "char" -> 1 [] T = "int" -> 4 [] OTHER -> 8
\* The types of the objects made with New and AllocateUnique.
ObjTypes == {"int", "Obj"}

NoExc == "none"
BadAlloc == "bad_alloc"
CtorErrors == {"E1", "E2"}
CtorOutcomes == {"ok"} \cup CtorErrors
\* A destructor declared noexcept(false) may raise.
DtorErrors == {"D1"}
DtorOutcomes == {"ok"} \cup DtorErrors
\* The process has ended: std::terminate after an exception met a noexcept
\* boundary, or a fault inside a host callback.
Terminate == "terminate"
\* What the freeMemory callback of a host does when it is handed a null
\* pointer: nothing, or it faults and the process ends.  The header puts no
\* requirement on the callback.
HostNullOutcomes == {"ignored", "fault"}

\* Memory::Memory(const fmiCallbackFunctions&)
Memory(allocateMemory, freeMemory) ==
    [m_alloc |-> allocateMemory, m_free |-> freeMemory]

\* All Memory values that can be formed, and the ones formed from the
\* callback bundle of one host.
Memories == {Memory(a, f) : a \in AllocFns, f \in FreeFns}
Bundles == {m \in Memories : /\ HostOf(m.m_alloc) = HostOf(m.m_free)
                              /\ HostOf(m.m_alloc) \in InstanceHosts}
NoMem == [m_alloc |-> "-", m_free |-> "-"]

\* Allocator<T>::Allocator(const Memory&)
Allocator(memory) == [m_memory |-> memory]

\* ------------------------------------------------------------------------
\* State
\* ------------------------------------------------------------------------
VARIABLES
    heap,       \* heap[a]: the live host block at address a, or FreeBlock
    objs,       \* the addresses at which a constructed object lives
    handles,    \* handles[h]: the UniquePtr variable h
    strings,    \* strings[s]: the String variable s
    last,       \* the operation performed last
    prev,       \* the allocate() call just before last, if last gives its block back
    debugLoggingEnabled,    \* *m_debugLoggingEnabled
    hostLogCalls,           \* calls received by the host logger
    nLog,                   \* Logger::Log calls made by the model code
    nDebugTrue,             \* DebugLog calls made while the flag was true
    nDebugFalse,            \* DebugLog calls made while the flag was false
    CPPFMU_NOEXCEPT         \* TRUE: the macro expands to noexcept; FALSE: to nothing

memVars == <<heap, objs, handles, strings>>
logVars == <<debugLoggingEnabled, hostLogCalls, nLog, nDebugTrue, nDebugFalse>>
vars == <<heap, objs, handles, strings, last, prev, debugLoggingEnabled,
          hostLogCalls, nLog, nDebugTrue, nDebugFalse, CPPFMU_NOEXCEPT>>

FreeBlock == [host |-> 0, nObj |-> 0]
NoObj == "-"
NoString == [state |-> "none", len |-> 0, buf |-> NULL, alloc |-> [m_memory |-> NoMem]]
NoHandle == [ptr |-> NULL, deleter |-> [memory |-> NoMem], state |-> "none", runs |-> 0]

\* ------------------------------------------------------------------------
\* Trace events
\* ------------------------------------------------------------------------
AllocEv(fn, nObj, size, ret) ==
    [ev |-> "alloc", fn |-> fn, nObj |-> nObj, size |-> size, ptr |-> ret, live |-> TRUE]
\* live: the host found ptr to be a live block of its own when freeing it
FreeEv(fn, ptr, live) ==
    [ev |-> "free", fn |-> fn, nObj |-> 0, size |-> 0, ptr |-> ptr, live |-> live]
CtorEv(ptr, outcome) ==
    [ev |-> "ctor", fn |-> outcome, nObj |-> 0, size |-> 0, ptr |-> ptr, live |-> TRUE]
DtorEv(ptr, live) ==
    [ev |-> "dtor", fn |-> "-", nObj |-> 0, size |-> 0, ptr |-> ptr, live |-> live]
LogEv(status) ==
    [ev |-> "log", fn |-> status, nObj |-> 0, size |-> 0, ptr |-> NULL, live |-> TRUE]

\* ------------------------------------------------------------------------
\* The host callbacks
\* ------------------------------------------------------------------------
\* allocateMemory(nObj, size) of the host that owns fn; the host returns
\* hostRet, which is NULL or an address that is not in use.
HostAllocate(h, fn, nObj, size, hostRet) ==
    IF hostRet = NULL THEN h
    ELSE [h EXCEPT ![hostRet] = [host |-> HostOf(fn), nObj |-> nObj]]

\* freeMemory(ptr) of the host that owns fn releases ptr when it is a live
\* block of that host.  Handed a null pointer, the host does onNull.
HostFreeLive(h, fn, ptr) == ptr # NULL /\ h[ptr].host = HostOf(fn)
HostFree(h, fn, ptr) ==
    IF HostFreeLive(h, fn, ptr) THEN [h EXCEPT ![ptr] = FreeBlock] ELSE h
HostFreeFaults(ptr, onNull) == ptr = NULL /\ onNull = "fault"

\* ------------------------------------------------------------------------
\* Memory
\* ------------------------------------------------------------------------
Memory_Alloc(st, this, nObj, size, hostRet) ==
    [st EXCEPT !.heap = HostAllocate(st.heap, this.m_alloc, nObj, size, hostRet),
               !.trace = Append(@, AllocEv(this.m_alloc, nObj, size, hostRet)),
               !.ret = hostRet]

\* m_free(ptr), whatever ptr is: a null pointer reaches the host too.
Memory_Free(st, this, ptr) ==
    [st EXCEPT !.heap = HostFree(st.heap, this.m_free, ptr),
               !.trace = Append(@, FreeEv(this.m_free, ptr,
                                          HostFreeLive(st.heap, this.m_free, ptr))),
               !.exc = IF HostFreeFaults(ptr, st.onNull) THEN Terminate ELSE @]

\* Variant: operator== compares the allocate pointers only.
Memory_eq_allocOnly(this, rhs) == this.m_alloc = rhs.m_alloc

Memory_eq(this, rhs) == this.m_alloc = rhs.m_alloc /\ this.m_free = rhs.m_free
Memory_ne(this, rhs) == ~Memory_eq(this, rhs)

\* ------------------------------------------------------------------------
\* Allocator<T>
\* ------------------------------------------------------------------------
\* Variant: allocate returns the host's null instead of raising bad_alloc.
Allocator_allocate_returnsNull(st, this, T, n, hostRet) ==
    IF n = 0 THEN [st EXCEPT !.ret = NULL]
    ELSE Memory_Alloc(st, this.m_memory, n, SizeOf(T), hostRet)

\* Variant: allocate forwards a zero count to the host.
Allocator_allocate_noZeroCheck(st, this, T, n, hostRet) ==
    LET m == Memory_Alloc(st, this.m_memory, n, SizeOf(T), hostRet) IN
    IF m.ret # NULL THEN m
    ELSE [m EXCEPT !.exc = BadAlloc]

Allocator_allocate(st, this, T, n, hostRet) ==
    IF n = 0 THEN [st EXCEPT !.ret = NULL]
    ELSE LET m == Memory_Alloc(st, this.m_memory, n, SizeOf(T), hostRet) IN
         IF m.ret # NULL THEN m
         ELSE [m EXCEPT !.exc = BadAlloc]

\* Variant: deallocate tests n > 1 instead of n > 0.
Allocator_deallocate_skipsSingle(st, this, p, n) ==
    IF n > 1 THEN Memory_Free(st, this.m_memory, p) ELSE st

Allocator_deallocate(st, this, p, n) ==
    IF n > 0 THEN Memory_Free(st, this.m_memory, p) ELSE st

\* template<typename U> Allocator(const Allocator<U>& other)
Allocator_rebind(other) == [m_memory |-> other.m_memory]

Allocator_eq(this, rhs) == Memory_eq(this.m_memory, rhs.m_memory)
Allocator_ne(this, rhs) == ~Allocator_eq(this, rhs)

\* ::new((void*) p) U(args...): the constructor either completes, and an
\* object lives at p, or raises outcome.
Allocator_construct(st, p, T, outcome) ==
    IF outcome = "ok"
    THEN [st EXCEPT !.objs = @ \cup {p}, !.trace = Append(@, CtorEv(p, outcome))]
    ELSE [st EXCEPT !.exc = outcome, !.trace = Append(@, CtorEv(p, outcome))]

\* p->~U(): the lifetime of the object ends; the destructor either returns
\* or raises outcome, which leaves destroy (it is not noexcept).
Allocator_destroy(st, p, outcome) ==
    [st EXCEPT !.objs = @ \ {p},
               !.trace = Append(@, DtorEv(p, p \in st.objs)),
               !.exc = IF outcome = "ok" THEN @ ELSE outcome]

\* ------------------------------------------------------------------------
\* String / CopyString
\* ------------------------------------------------------------------------
\* The longest string std::basic_string<char> keeps inside the String object
\* itself (libstdc++ and MSVC: 15 characters); a longer one gets a buffer
\* from the String's allocator.
SsoCapacity == 15
StrLens == {0, SsoCapacity, SsoCapacity + 1, 44}

\* String{string, alloc} for a null-terminated string of len characters: a
\* buffer of len + 1 chars is allocated when the string does not fit inside.
String_construct(st, alloc, len, hostRet) ==
    IF len <= SsoCapacity THEN [st EXCEPT !.ret = NULL]
    ELSE Allocator_allocate(st, alloc, "char", len + 1, hostRet)

\* ~String(): the buffer, if there is one, goes back to the allocator.
String_destroy(st, str) ==
    IF str.buf # NULL THEN Allocator_deallocate(st, str.alloc, str.buf, str.len + 1)
    ELSE st

CopyString(st, memory, len, hostRet) ==
    LET r == String_construct(st, Allocator(memory), len, hostRet) IN
    [st |-> r,
     str |-> IF r.exc # NoExc THEN NoString
             ELSE [state |-> "live", len |-> len, buf |-> r.ret,
                   alloc |-> Allocator(memory)]]

\* ------------------------------------------------------------------------
\* New / Delete / AllocateUnique
\* ------------------------------------------------------------------------
\* Variant: New rethrows without deallocating the block.
New_leaksOnCtorFailure(st, memory, T, hostRet, outcome) ==
    LET alloc == Allocator(memory)
        a == Allocator_allocate(st, alloc, T, 1, hostRet)
    IN  IF a.exc # NoExc THEN a
        ELSE LET ptr == a.ret
                 c == Allocator_construct(a, ptr, T, outcome)
             IN  IF c.exc # NoExc
                 THEN [c EXCEPT !.ret = NULL]
                 ELSE [c EXCEPT !.ret = ptr]

New(st, memory, T, hostRet, outcome) ==
    LET alloc == Allocator(memory)
        a == Allocator_allocate(st, alloc, T, 1, hostRet)
    IN  IF a.exc # NoExc THEN a
        ELSE LET ptr == a.ret
                 c == Allocator_construct(a, ptr, T, outcome)
             IN  IF c.exc # NoExc
                 THEN [Allocator_deallocate(c, alloc, ptr, 1) EXCEPT !.ret = NULL]
                 ELSE [c EXCEPT !.ret = ptr]

\* An exception that leaves destroy leaves Delete before deallocate is
\* called.  Where CPPFMU_NOEXCEPT expands to noexcept the process ends at
\* Delete's boundary; where it expands to nothing the exception goes on to
\* the caller.
Delete(st, memory, obj, outcome) ==
    LET alloc == Allocator(memory)
        d == Allocator_destroy(st, obj, outcome)
    IN  IF d.exc # NoExc
        THEN IF st.noexcept THEN [d EXCEPT !.exc = Terminate] ELSE d
        ELSE Allocator_deallocate(d, alloc, obj, 1)

\* The closure [memory] (void* ptr) { Delete(memory, reinterpret_cast<T*>(ptr)); }
Deleter(memory) == [memory |-> memory]
Deleter_call(st, deleter, ptr, outcome) == Delete(st, deleter.memory, ptr, outcome)

\* ------------------------------------------------------------------------
\* Operations as actions
\* ------------------------------------------------------------------------
\* The state a call starts in.  noexcept is the build's expansion of
\* CPPFMU_NOEXCEPT; onNull is what the host does should this call hand its
\* freeMemory a null pointer.
Start0 == [trace |-> <<>>, ret |-> NULL, exc |-> NoExc]
StartOn(onNull) ==
    [heap |-> heap, objs |-> objs, trace |-> <<>>, ret |-> NULL, exc |-> NoExc,
     noexcept |-> CPPFMU_NOEXCEPT, onNull |-> onNull]
Start == StartOn("ignored")

Op(name, memory, T, n, p, st) ==
    [op |-> name, memory |-> memory, type |-> T, n |-> n, p |-> p,
     trace |-> st.trace, ret |-> st.ret, exc |-> st.exc,
     hostRet |-> NULL, outcome |-> "-", onNull |-> "-",
     rhs |-> NoMem, eq |-> FALSE, ne |-> FALSE, flag |-> FALSE]
NoOp == Op("none", NoMem, NoObj, 0, NULL, Start0)

\* What the host may return from allocateMemory in the current state: NULL,
\* or the first address that is not in use (a first-fit host).
FreeAddrs == {a \in Addrs : heap[a] = FreeBlock}
HostRets == {NULL} \cup {a \in FreeAddrs : \A b \in FreeAddrs : a <= b}

MemInit ==
    /\ heap = [a \in Addrs |-> FreeBlock]
    /\ objs = {}
    /\ handles = [h \in 1..MaxHandles |-> NoHandle]
    /\ strings = [s \in 1..MaxStrings |-> NoString]
    /\ last = NoOp
    /\ prev = NoOp

\* The header does not set the shared flag; the code that makes the Logger
\* does, to either value.
LogInit(flags) ==
    /\ debugLoggingEnabled \in flags
    /\ hostLogCalls = 0
    /\ nLog = 0
    /\ nDebugTrue = 0
    /\ nDebugFalse = 0

\* The compiler fixes the expansion of CPPFMU_NOEXCEPT (lines 24-29).
BuildInit(builds) == CPPFMU_NOEXCEPT \in builds

\* Init and InitLog: the operations that follow do not depend on the
\* expansion.  InitBuilds: either expansion.
Init == MemInit /\ LogInit({FALSE}) /\ BuildInit({TRUE})
InitLog == MemInit /\ LogInit(BOOLEAN) /\ BuildInit({TRUE})
InitBuilds == MemInit /\ LogInit({FALSE}) /\ BuildInit(BOOLEAN)
InitAll == MemInit /\ LogInit(BOOLEAN) /\ BuildInit(BOOLEAN)

\* No call is made after the process has ended.  prev keeps the allocate()
\* call that a deallocate() call of the block it returned follows at once.
Record(o) ==
    /\ last.exc # Terminate
    /\ last' = o
    /\ prev' = IF /\ last.op = "allocate" /\ o.op = "deallocate"
                  /\ last.ret # NULL /\ o.p = last.ret
               THEN last ELSE NoOp

\* Allocator<T>{memory}.allocate(n)
AllocateCall ==
    \E memory \in Bundles, T \in Types, n \in 0..MaxN, hostRet \in HostRets :
        \* the host is not asked when n = 0
        /\ n = 0 => hostRet = NULL
        /\ LET r == Allocator_allocate(Start, Allocator(memory), T, n, hostRet) IN
            /\ heap' = r.heap
            /\ Record([Op("allocate", memory, T, n, NULL, r) EXCEPT !.hostRet = hostRet])
        /\ UNCHANGED <<objs, handles, strings>>
        /\ UNCHANGED <<logVars, CPPFMU_NOEXCEPT>>

\* memory.Alloc(nObj, size): the host is asked whatever nObj is, and its
\* result, null included, is returned.
AllocCall ==
    \E memory \in Bundles, T \in Types, nObj \in 0..MaxN, hostRet \in HostRets :
        LET r == Memory_Alloc(Start, memory, nObj, SizeOf(T), hostRet) IN
        /\ heap' = r.heap
        /\ Record([Op("Alloc", memory, T, nObj, NULL, r) EXCEPT !.hostRet = hostRet])
        /\ UNCHANGED <<objs, handles, strings>>
        /\ UNCHANGED <<logVars, CPPFMU_NOEXCEPT>>

\* Objects a UniquePtr owns.
Owned == {handles[h].ptr : h \in 1..MaxHandles} \ {NULL}

\* Blocks obtained from allocate() or Alloc() that hold no object and are no
\* String's buffer: what the model code may pass back to deallocate() or
\* Memory::Free().
StringBufs == {strings[s].buf : s \in 1..MaxStrings} \ {NULL}
RawBlocks(memory) ==
    {a \in Addrs : /\ heap[a].host = HostOf(memory.m_alloc)
                   /\ a \notin objs
                   /\ a \notin StringBufs}

\* Allocator<T>{memory}.deallocate(p, n): with n = 0 for any pointer, and
\* otherwise for a null pointer or a block allocate(n) returned.
DeallocateCall ==
    \E memory \in Bundles, T \in Types, n \in 0..MaxN, p \in Ptrs,
       onNull \in HostNullOutcomes :
        /\ n > 0 /\ p # NULL =>
                /\ p \in RawBlocks(memory)
                /\ heap[p].nObj = n
        \* the host is handed a null pointer only when n > 0 and p is null
        /\ ~(n > 0 /\ p = NULL) => onNull = "ignored"
        /\ LET r == Allocator_deallocate(StartOn(onNull), Allocator(memory), p, n) IN
            /\ heap' = r.heap
            /\ Record([Op("deallocate", memory, T, n, p, r) EXCEPT !.onNull = onNull])
        /\ UNCHANGED <<objs, handles, strings>>
        /\ UNCHANGED <<logVars, CPPFMU_NOEXCEPT>>

\* memory.Free(ptr) for a null pointer or a block memory.Alloc() returned.
FreeCall ==
    \E memory \in Bundles, ptr \in Ptrs, onNull \in HostNullOutcomes :
        /\ ptr # NULL => ptr \in RawBlocks(memory) /\ onNull = "ignored"
        /\ LET r == Memory_Free(StartOn(onNull), memory, ptr) IN
            /\ heap' = r.heap
            /\ Record([Op("Free", memory, NoObj, 0, ptr, r) EXCEPT !.onNull = onNull])
        /\ UNCHANGED <<objs, handles, strings>>
        /\ UNCHANGED <<logVars, CPPFMU_NOEXCEPT>>

\* Allocator<T>{memory}.construct(p, args...) on a block that holds no object.
ConstructCall ==
    \E memory \in Bundles, T \in Types, p \in Addrs, outcome \in CtorOutcomes :
        /\ heap[p] # FreeBlock
        /\ p \notin objs
        /\ p \notin StringBufs
        /\ LET r == Allocator_construct(Start, p, T, outcome) IN
            /\ objs' = r.objs
            /\ Record([Op("construct", memory, T, 0, p, r) EXCEPT !.outcome = outcome])
        /\ UNCHANGED <<heap, handles, strings>>
        /\ UNCHANGED <<logVars, CPPFMU_NOEXCEPT>>

\* Allocator<T>{memory}.destroy(p) on a live object no UniquePtr owns.
DestroyCall ==
    \E memory \in Bundles, p \in Addrs, outcome \in DtorOutcomes :
        /\ p \in objs \ Owned
        /\ LET r == Allocator_destroy(Start, p, outcome) IN
            /\ objs' = r.objs
            /\ Record([Op("destroy", memory, NoObj, 0, p, r) EXCEPT !.outcome = outcome])
        /\ UNCHANGED <<heap, handles, strings>>
        /\ UNCHANGED <<logVars, CPPFMU_NOEXCEPT>>

\* String s = CopyString(memory, string); when the allocation fails, the
\* error propagates and no String is made.
CopyStringCall ==
    \E s \in 1..MaxStrings, memory \in Bundles, len \in StrLens, hostRet \in HostRets :
        /\ strings[s].state = "none"
        \* the host is not asked for a string that fits inside the String
        /\ len <= SsoCapacity => hostRet = NULL
        /\ LET c == CopyString(Start, memory, len, hostRet) IN
            /\ heap' = c.st.heap
            /\ strings' = IF c.st.exc # NoExc THEN strings
                          ELSE [strings EXCEPT ![s] = c.str]
            /\ Record([Op("CopyString", memory, "char", len, NULL, c.st) EXCEPT
                            !.hostRet = hostRet])
        /\ UNCHANGED <<objs, handles>>
        /\ UNCHANGED <<logVars, CPPFMU_NOEXCEPT>>

\* End of the lifetime of a String.
StringDestroyCall ==
    \E s \in 1..MaxStrings :
        /\ strings[s].state = "live"
        /\ LET r == String_destroy(Start, strings[s]) IN
            /\ heap' = r.heap
            /\ strings' = [strings EXCEPT ![s] = NoString]
            /\ Record(Op("~String", strings[s].alloc.m_memory, "char",
                         strings[s].len, strings[s].buf, r))
        /\ UNCHANGED <<objs, handles>>
        /\ UNCHANGED <<logVars, CPPFMU_NOEXCEPT>>

\* New<T>(memory, args...)
NewCall ==
    \E memory \in Bundles, T \in ObjTypes, hostRet \in HostRets, outcome \in CtorOutcomes :
        LET r == New(Start, memory, T, hostRet, outcome) IN
        /\ heap' = r.heap
        /\ objs' = r.objs
        /\ Record([Op("New", memory, T, 1, NULL, r) EXCEPT
                        !.hostRet = hostRet, !.outcome = outcome])
        /\ UNCHANGED <<handles, strings>>
        /\ UNCHANGED <<logVars, CPPFMU_NOEXCEPT>>

\* Live objects in blocks of memory's host; those outside Owned are held by
\* raw pointer.
LiveObjs(memory) ==
    {a \in objs : heap[a].host = HostOf(memory.m_alloc)}

\* Delete<T>(memory, obj) on a live object that New<T>(memory, ...) returned.
DeleteCall ==
    \E memory \in Bundles, obj \in Addrs, outcome \in DtorOutcomes :
        /\ obj \in LiveObjs(memory) \ Owned
        /\ LET r == Delete(Start, memory, obj, outcome) IN
            /\ heap' = r.heap
            /\ objs' = r.objs
            /\ Record([Op("Delete", memory, NoObj, 1, obj, r) EXCEPT
                            !.outcome = outcome])
        /\ UNCHANGED <<handles, strings>>
        /\ UNCHANGED <<logVars, CPPFMU_NOEXCEPT>>

\* UniquePtr<T> h = AllocateUnique<T>(memory, args...); when New raises, the
\* error propagates and no handle is made.
AllocateUnique(st, memory, T, hostRet, outcome) ==
    LET r == New(st, memory, T, hostRet, outcome) IN
    [st |-> r,
     handle |-> IF r.exc # NoExc THEN NoHandle
                ELSE [ptr |-> r.ret, deleter |-> Deleter(memory),
                      state |-> "owning", runs |-> 0]]

AllocateUniqueCall ==
    \E h \in 1..MaxHandles, memory \in Bundles, T \in ObjTypes,
       hostRet \in HostRets, outcome \in CtorOutcomes :
        /\ handles[h].ptr = NULL
        /\ LET u == AllocateUnique(Start, memory, T, hostRet, outcome) IN
            /\ heap' = u.st.heap
            /\ objs' = u.st.objs
            /\ handles' = IF u.st.exc # NoExc THEN handles
                          ELSE [handles EXCEPT ![h] = u.handle]
            /\ Record([Op("AllocateUnique", memory, T, 1, NULL, u.st) EXCEPT
                            !.hostRet = hostRet, !.outcome = outcome])
        /\ UNCHANGED strings
        /\ UNCHANGED <<logVars, CPPFMU_NOEXCEPT>>

\* End of ownership of a UniquePtr (its destructor, or reset()): the release
\* action runs on the held pointer unless the handle is empty, and the handle
\* is empty afterwards.  The library declares both non-throwing: an
\* exception that leaves the release action either passes through (passes,
\* a compiler that does not enforce the declaration) or ends the process.
UniquePtr_reset(st, handle, outcome, passes) ==
    IF handle.ptr # NULL
    THEN LET d == Deleter_call(st, handle.deleter, handle.ptr, outcome) IN
         [st |-> IF d.exc # NoExc /\ ~passes THEN [d EXCEPT !.exc = Terminate] ELSE d,
          handle |-> [handle EXCEPT !.ptr = NULL, !.state = "empty", !.runs = @ + 1]]
    ELSE [st |-> st, handle |-> handle]

ReleaseCall ==
    \E h \in 1..MaxHandles, outcome \in DtorOutcomes, passes \in BOOLEAN :
        /\ handles[h].state # "none"
        \* no destructor runs for an empty handle
        /\ handles[h].ptr = NULL => outcome = "ok"
        \* only a compiler without noexcept lets an exception through
        /\ passes => outcome # "ok" /\ ~CPPFMU_NOEXCEPT
        /\ LET u == UniquePtr_reset(Start, handles[h], outcome, passes) IN
            /\ heap' = u.st.heap
            /\ objs' = u.st.objs
            /\ handles' = [handles EXCEPT ![h] = u.handle]
            /\ Record([Op("release", handles[h].deleter.memory, NoObj, 1,
                          handles[h].ptr, u.st) EXCEPT !.outcome = outcome])
        /\ UNCHANGED strings
        /\ UNCHANGED <<logVars, CPPFMU_NOEXCEPT>>

\* a == b and a != b on two Memory values, and on the Allocators made of them.
MemoryEqCall ==
    \E a \in Memories, b \in Memories :
        /\ Record([Op("Memory==", a, NoObj, 0, NULL, Start0) EXCEPT
                        !.rhs = b, !.eq = Memory_eq(a, b), !.ne = Memory_ne(a, b)])
        /\ UNCHANGED memVars
        /\ UNCHANGED <<logVars, CPPFMU_NOEXCEPT>>

AllocatorEqCall ==
    \E a \in Memories, b \in Memories, T \in Types :
        /\ Record([Op("Allocator==", a, T, 0, NULL, Start0) EXCEPT
                        !.rhs = b,
                        !.eq = Allocator_eq(Allocator(a), Allocator(b)),
                        !.ne = Allocator_ne(Allocator(a), Allocator(b))])
        /\ UNCHANGED memVars
        /\ UNCHANGED <<logVars, CPPFMU_NOEXCEPT>>

\* Allocator<T>{Allocator<U>{a}} == Allocator<T>{a}: a rebound copy compared
\* with an Allocator made of the same Memory.
RebindCall ==
    \E a \in Memories, T \in Types :
        LET other == Allocator_rebind(Allocator(a)) IN
        /\ Record([Op("rebind", a, T, 0, NULL, Start0) EXCEPT
                        !.rhs = other.m_memory,
                        !.eq = Allocator_eq(other, Allocator(a)),
                        !.ne = Allocator_ne(other, Allocator(a))])
        /\ UNCHANGED memVars
        /\ UNCHANGED <<logVars, CPPFMU_NOEXCEPT>>

\* ------------------------------------------------------------------------
\* Logger
\* ------------------------------------------------------------------------
Statuses == {"fmiOK", "fmiWarning"}

Logger_Log(st, status) ==
    [st EXCEPT !.trace = Append(@, LogEv(status))]

\* Variant: DebugLog does not read the flag.
Logger_DebugLog_ungated(st, m_debugLoggingEnabled, status) == Logger_Log(st, status)

Logger_DebugLog(st, m_debugLoggingEnabled, status) ==
    IF m_debugLoggingEnabled THEN Logger_Log(st, status) ELSE st

LogCount(trace) == Cardinality({i \in 1..Len(trace) : trace[i].ev = "log"})
LogCallsMade == nLog + nDebugTrue + nDebugFalse

LogCall ==
    \E status \in Statuses :
        /\ LogCallsMade < MaxLogCalls
        /\ LET r == Logger_Log(Start0, status) IN
            /\ hostLogCalls' = hostLogCalls + LogCount(r.trace)
            /\ Record([Op("Log", NoMem, NoObj, 0, NULL, r) EXCEPT
                            !.flag = debugLoggingEnabled, !.outcome = status])
        /\ nLog' = nLog + 1
        /\ UNCHANGED <<debugLoggingEnabled, nDebugTrue, nDebugFalse>>
        /\ UNCHANGED <<memVars, CPPFMU_NOEXCEPT>>

DebugLogCall ==
    \E status \in Statuses :
        /\ LogCallsMade < MaxLogCalls
        /\ LET r == Logger_DebugLog(Start0, debugLoggingEnabled, status) IN
            /\ hostLogCalls' = hostLogCalls + LogCount(r.trace)
            /\ Record([Op("DebugLog", NoMem, NoObj, 0, NULL, r) EXCEPT
                            !.flag = debugLoggingEnabled, !.outcome = status])
        /\ nDebugTrue' = IF debugLoggingEnabled THEN nDebugTrue + 1 ELSE nDebugTrue
        /\ nDebugFalse' = IF debugLoggingEnabled THEN nDebugFalse ELSE nDebugFalse + 1
        /\ UNCHANGED <<debugLoggingEnabled, nLog>>
        /\ UNCHANGED <<memVars, CPPFMU_NOEXCEPT>>

\* The owner of the shared flag writes it.
SetDebugLogging ==
    \E b \in BOOLEAN :
        /\ b # debugLoggingEnabled
        /\ debugLoggingEnabled' = b
        /\ Record([Op("SetDebugLogging", NoMem, NoObj, 0, NULL, Start0) EXCEPT
                        !.flag = b])
        /\ UNCHANGED <<hostLogCalls, nLog, nDebugTrue, nDebugFalse>>
        /\ UNCHANGED <<memVars, CPPFMU_NOEXCEPT>>

\* ------------------------------------------------------------------------
\* Specifications
\* ------------------------------------------------------------------------
AllocNext ==
    \/ AllocCall
    \/ FreeCall
    \/ AllocateCall
    \/ DeallocateCall

ObjNext ==
    \/ AllocateCall
    \/ ConstructCall
    \/ DestroyCall
    \/ NewCall
    \/ DeleteCall

StrNext ==
    \/ CopyStringCall
    \/ StringDestroyCall

OwnNext ==
    \/ NewCall
    \/ DeleteCall
    \/ AllocateUniqueCall
    \/ ReleaseCall

EqNext ==
    \/ MemoryEqCall
    \/ AllocatorEqCall
    \/ RebindCall

LogNext ==
    \/ LogCall
    \/ DebugLogCall
    \/ SetDebugLogging

Next == AllocNext \/ ObjNext \/ StrNext \/ OwnNext \/ EqNext \/ LogNext

\* Every operation modelled.  The components share no state of their
\* own (each call acts on the host only), so each property below is checked
\* under the specification of the component it is about.
Spec == InitAll /\ [][Next]_vars

\* Model code that manages raw blocks through Memory and Allocator.
SpecAlloc == Init /\ [][AllocNext]_vars

\* Model code that constructs and destroys objects in blocks it allocates,
\* directly through Allocator or through New and Delete.
SpecObj == InitBuilds /\ [][ObjNext]_vars

\* Model code that makes and destroys Strings.
SpecStr == Init /\ [][StrNext]_vars

\* Model code that manages objects through New, Delete and AllocateUnique.
SpecOwn == InitBuilds /\ [][OwnNext]_vars

\* Comparison of Memory handles and of Allocators.
SpecEq == Init /\ [][EqNext]_vars

\* The Logger.
SpecLog == InitLog /\ [][LogNext]_vars

\* ------------------------------------------------------------------------
\* Properties
\* ------------------------------------------------------------------------
Count(trace, kind) == Cardinality({i \in 1..Len(trace) : trace[i].ev = kind})
Live == {a \in Addrs : heap[a] # FreeBlock}

\* C1: when New<T>'s host allocation succeeds and the constructor of T
\* raises, New calls the host allocate function, runs the constructor, and
\* then calls the host free function exactly once on the block the host
\* returned; no destructor runs, and the error leaving New is the
\* constructor's.
C1_CtorFailed ==
    /\ last.op = "New"
    /\ last.hostRet # NULL
    /\ last.outcome \in CtorErrors
C1_NewUnwindsFailedConstruction ==
    C1_CtorFailed =>
        LET p == last.hostRet IN
        /\ last.trace = <<AllocEv(last.memory.m_alloc, 1, SizeOf(last.type), p),
                          CtorEv(p, last.outcome),
                          FreeEv(last.memory.m_free, p, TRUE)>>
        /\ Count(last.trace, "free") = 1
        /\ Count(last.trace, "dtor") = 0
        /\ last.exc = last.outcome
        /\ p \notin objs
        /\ heap[p] = FreeBlock
C1_Witness ==
    /\ C1_CtorFailed
    /\ last.exc = "E2"
    /\ Count(last.trace, "free") = 1
    /\ Live # {}

\* C2: an owning handle made by AllocateUnique<T>(memory, ...) holds the
\* object New returned and a release action bound to that same memory;
\* whenever its ownership ends the release action runs the destructor once
\* and calls the free function of that memory once, on the held object's
\* block; the release action runs at most once per handle.
C2_Released == last.op = "release" /\ last.p # NULL
C2_HandleIsBound ==
    /\ (last.op = "AllocateUnique" /\ last.exc = NoExc) =>
            \E h \in 1..MaxHandles :
                /\ handles[h].ptr = last.ret
                /\ handles[h].deleter.memory = last.memory
                /\ handles[h].runs = 0
    /\ \A h \in 1..MaxHandles :
            /\ handles[h].runs <= 1
            /\ handles[h].ptr # NULL =>
                    /\ handles[h].ptr \in objs
                    /\ heap[handles[h].ptr].host = HostOf(handles[h].deleter.memory.m_alloc)
                    /\ heap[handles[h].ptr].host = HostOf(handles[h].deleter.memory.m_free)
    /\ (last.op = "release" /\ last.p = NULL) => last.trace = <<>>
C2_ReleaseAlwaysFrees ==
    /\ C2_HandleIsBound
    /\ C2_Released =>
            last.trace = <<DtorEv(last.p, TRUE),
                           FreeEv(last.memory.m_free, last.p, TRUE)>>

\* C3: for n > 0, Allocator<T>::allocate(n) makes exactly one host allocate
\* call, with arguments (n, sizeof(T)); it returns the block the host
\* returned when that is not null and raises bad_alloc when it is null, so it
\* never returns null.
C3_Allocated == last.op = "allocate" /\ last.n > 0
C3_AllocateForwardsOnce ==
    C3_Allocated =>
        /\ last.trace = <<AllocEv(last.memory.m_alloc, last.n, SizeOf(last.type),
                                  last.hostRet)>>
        /\ last.hostRet # NULL => last.exc = NoExc /\ last.ret = last.hostRet
        /\ last.hostRet = NULL => last.exc = BadAlloc
        /\ last.exc = NoExc => last.ret # NULL
C3_Witness ==
    /\ C3_Allocated
    /\ last.n = 2
    /\ last.exc = BadAlloc
    /\ Live # {}

\* C4: for n > 0 and a host allocation that succeeds, allocate(n) followed at
\* once by deallocate(p, n) on the returned block p makes one host allocate
\* call with (n, sizeof(T)) and then one host free call on the block the host
\* returned, and no other host call.
C4_RoundTrip ==
    /\ last.op = "deallocate" /\ prev.op = "allocate"
    /\ prev.n > 0 /\ prev.hostRet # NULL
    /\ last.p = prev.hostRet /\ last.n = prev.n
    /\ last.memory = prev.memory /\ last.type = prev.type
C4_AllocateThenDeallocate ==
    C4_RoundTrip =>
        /\ prev.trace \o last.trace =
                <<AllocEv(prev.memory.m_alloc, prev.n, SizeOf(prev.type), prev.hostRet),
                  FreeEv(prev.memory.m_free, prev.hostRet, TRUE)>>
        /\ heap[prev.hostRet] = FreeBlock
C4_Witness ==
    /\ C4_RoundTrip
    /\ last.n = 2
    /\ last.type = "int"
    /\ Live # {}

\* C5: allocate(0) returns null and calls no host function, and
\* deallocate(p, 0) calls no host function for any p; neither raises.
C5_ZeroCount == last.op \in {"allocate", "deallocate"} /\ last.n = 0
C5_ZeroCountMakesNoHostCall ==
    C5_ZeroCount =>
        /\ last.trace = <<>>
        /\ last.exc = NoExc
        /\ last.op = "allocate" => last.ret = NULL
C5_Witness ==
    /\ C5_ZeroCount
    /\ last.op = "deallocate"
    /\ last.p # NULL /\ heap[last.p] # FreeBlock

\* C6: two Memory handles, and two Allocators, compare equal exactly when
\* their allocate function pointers are the same and their free function
\* pointers are the same, and != is the negation of ==.
C6_Compared == last.op \in {"Memory==", "Allocator=="}
C6_EqualityIsPointerPairEquality ==
    C6_Compared =>
        /\ last.eq <=> (last.memory.m_alloc = last.rhs.m_alloc
                         /\ last.memory.m_free = last.rhs.m_free)
        /\ last.ne <=> ~last.eq
C6_Witness ==
    /\ last.op = "Allocator=="
    /\ last.memory.m_alloc = last.rhs.m_alloc
    /\ last.memory.m_free # last.rhs.m_free
    /\ last.ne

\* C7: every Delete<T>(memory, obj) on a live object runs the destructor of
\* the object once and then calls the free function of memory once on obj's
\* block, and makes no host allocate call.
C7_Deleted == last.op = "Delete"
C7_DeleteAlwaysFrees ==
    C7_Deleted =>
        /\ last.trace = <<DtorEv(last.p, TRUE), FreeEv(last.memory.m_free, last.p, TRUE)>>
        /\ Count(last.trace, "alloc") = 0

\* C8: a DebugLog call makes one host logger call when the shared flag reads
\* true at the call and none when it reads false; with only DebugLog calls
\* and flag changes, the host logger has been called as many times as
\* DebugLog was called while the flag was true.
C8_DebugLogged == last.op = "DebugLog"
C8_DebugLogIsGatedByFlag ==
    /\ C8_DebugLogged =>
            /\ last.flag => last.trace = <<LogEv(last.outcome)>>
            /\ ~last.flag => last.trace = <<>>
    /\ nLog = 0 => hostLogCalls = nDebugTrue
C8_Witness ==
    /\ C8_DebugLogged
    /\ nLog = 0
    /\ nDebugFalse = 1
    /\ nDebugTrue = 1
    /\ hostLogCalls = 1

\* C9: Memory::Free called with a null block releases no block, leaves the
\* host's blocks as they were and does not raise.
C9_FreedNull == last.op = "Free" /\ last.p = NULL
C10_AllocFailed == last.op \in {"New", "AllocateUnique"} /\ last.hostRet = NULL
C10_FreesAreSound ==
    /\ \A i \in 1..Len(last.trace) : last.trace[i].live
    /\ C10_AllocFailed =>
            /\ last.trace = <<AllocEv(last.memory.m_alloc, 1, SizeOf(last.type), NULL)>>
            /\ last.exc = BadAlloc
C10_BlocksAlwaysMatchObjects ==
    /\ C10_FreesAreSound
    /\ last.exc # Terminate => Live = objs
====
